---------------------------- MODULE Spec2Model ----------------------------
(***************************************************************************)
(* A model of the two batch download scripts of the repository:            *)
(*   src/main.py            metadata resolution, skip-check, fetch, ledger *)
(*   src/main_start_end.py  fetch with optional time range                 *)
(* Spec is one run of a script, SpecRuns several runs on one output        *)
(* directory, SpecFn one call of a single function of the scripts.         *)
(* Text is a sequence of one-character strings, so that parsing,           *)
(* sanitising and formatting are computed the way the code computes them.  *)
(***************************************************************************)
EXTENDS Naturals, Integers, Sequences, FiniteSets, TLC

(***************************************************************************)
(* Bounds of the model.                                                    *)
(***************************************************************************)
MaxLines == 2
MaxWorkers == 2
MaxRuns == 2
MaxSegments == 3
MaxTitleLen == 2
MaxFileLines == 2
MaxLinks == 2

(***************************************************************************)
(* Text helpers (Python str operations used by the code).                  *)
(***************************************************************************)
Lower == {"a","b","c","d","e","f","g","h","i","j","k","l","m",
          "n","o","p","q","r","s","t","u","v","w","x","y","z"}
Upper == {"A","B","C","D","E","F","G","H","I","J","K","L","M",
          "N","O","P","Q","R","S","T","U","V","W","X","Y","Z"}
Digits == {"0","1","2","3","4","5","6","7","8","9"}
\* One non-ASCII letter, written as the name of its code point: one element
\* of a text is one character.
UnicodeLetters == {"U+00E9"}
Whitespace == {" "}

\* str.isalnum() of one character: true of every Unicode letter or digit.
isalnum(c) == c \in Lower \cup Upper \cup Digits \cup UnicodeLetters

SetMin(S) == CHOOSE x \in S : \A y \in S : x <= y

\* str.find for a set of characters: the first index >= from holding one of
\* cs, or Len(s) + 1 when there is none.
Find(s, cs, from) ==
  LET hits == {i \in from..Len(s) : s[i] \in cs}
  IN IF hits = {} THEN Len(s) + 1 ELSE SetMin(hits)

\* s[from:] of Python, 1-based.
Drop(s, from) == SubSeq(s, from, Len(s))

StartsWith(s, p) == Len(s) >= Len(p) /\ SubSeq(s, 1, Len(p)) = p

\* Python's `p in s` for strings.
Contains(s, p) ==
  \E i \in 0..(Len(s) - Len(p)) : SubSeq(s, i + 1, i + Len(p)) = p

RECURSIVE lstrip(_)
lstrip(s) == IF s # <<>> /\ Head(s) \in Whitespace THEN lstrip(Tail(s)) ELSE s

RECURSIVE rstrip(_)
rstrip(s) ==
  IF s # <<>> /\ s[Len(s)] \in Whitespace
  THEN rstrip(SubSeq(s, 1, Len(s) - 1)) ELSE s

strip(s) == rstrip(lstrip(s))

\* str.split(sep) with a one-character separator.
RECURSIVE Split(_, _)
Split(s, c) ==
  LET i == Find(s, {c}, 1)
  IN IF i > Len(s) THEN <<s>>
     ELSE <<SubSeq(s, 1, i - 1)>> \o Split(Drop(s, i + 1), c)

\* str.split() without argument: the maximal runs of non-whitespace.
RECURSIVE SplitWs(_)
SplitWs(s) ==
  LET t == lstrip(s)
      i == Find(t, Whitespace, 1)
  IN IF t = <<>> THEN <<>>
     ELSE <<SubSeq(t, 1, i - 1)>> \o SplitWs(Drop(t, i))

(***************************************************************************)
(* urllib.parse.urlparse, as far as extract_vod_id reads it: the netloc    *)
(* and the path.  (The alphabet of the inputs holds no ';', so the params  *)
(* split of urlparse never applies.)                                       *)
(***************************************************************************)
SchemeChars == Lower \cup Upper \cup Digits \cup {"+", "-", "."}

urlparse(url0) ==
  LET url1 == lstrip(url0)
      i == Find(url1, {":"}, 1)
      hasScheme == /\ i <= Len(url1)
                   /\ i > 1
                   /\ url1[1] \in Lower \cup Upper
                   /\ \A k \in 1..(i - 1) : url1[k] \in SchemeChars
      url2 == IF hasScheme THEN Drop(url1, i + 1) ELSE url1
      hasNetloc == StartsWith(url2, <<"/", "/">>)
      delim == Find(url2, {"/", "?", "#"}, 3)
      netloc == IF hasNetloc THEN SubSeq(url2, 3, delim - 1) ELSE <<>>
      url3 == IF hasNetloc THEN Drop(url2, delim) ELSE url2
      path == SubSeq(url3, 1, Find(url3, {"?", "#"}, 1) - 1)
  IN [netloc |-> netloc, path |-> path]

\* The values a Python name can hold here besides text: None is a record of
\* its own kind, so that it never equals a text, the empty one included.
None == [k |-> "none", v |-> <<>>]
Str(t) == [k |-> "str", v |-> t]

twitch_tv == <<"t","w","i","t","c","h",".","t","v">>
videos == <<"v","i","d","e","o","s">>
video == <<"v","i","d","e","o">>

\* src/main.py extract_vod_id: the segment after the first `videos` or
\* `video` segment that has a successor, when the netloc contains twitch.tv.
extract_vod_id(url) ==
  LET parsed_url == urlparse(url)
      path_parts == Split(parsed_url.path, "/")
      hits == {i \in 1..Len(path_parts) :
                 /\ path_parts[i] = videos \/ path_parts[i] = video
                 /\ i + 1 <= Len(path_parts)}
  IN IF Contains(parsed_url.netloc, twitch_tv) /\ hits # {}
     THEN Str(path_parts[SetMin(hits) + 1])
     ELSE None

\* Python truthiness of the value extract_vod_id returns (`if not vod_id`).
Truthy(x) == x.k = "str" /\ x.v # <<>>

(***************************************************************************)
(* The input file: each line is one entry of LineTable, named by its       *)
(* index, so that a state holds small numbers instead of long texts.       *)
(***************************************************************************)
LineTable ==
  << <<"h","t","t","p","s",":","/","/","t","w","i","t","c","h",".","t","v",
       "/","v","i","d","e","o","s","/","1">>,
     <<" ","h","t","t","p","s",":","/","/","t","w","i","t","c","h",".","t","v",
       "/","v","i","d","e","o","/","2"," ">>,
     <<"h","t","t","p","s",":","/","/","e","x","a","m","p","l","e",".","c","o",
       "m","/","v","i","d","e","o","s","/","3">>,
     <<"#"," ","c">>,
     <<"h","t","t","p","s",":","/","/","t","w","i","t","c","h",".","t","v",
       "/","v","i","d","e","o","s","/","4"," ","0",":","1","0">>,
     <<"h","t","t","p","s",":","/","/","t","w","i","t","c","h",".","t","v",
       "/","v","i","d","e","o","s","/","4"," "," ","0",":","1","0"," ","0",":",
       "2","0">> >>

LineIds == 1..Len(LineTable)

\* The lines that hold at most a URL: the input format of src/main.py
\* ("one per line").  The last two lines hold offsets after the URL, the
\* format of src/main_start_end.py ("URL [START_TIME] [END_TIME]").
UrlLineIds == 1..4

RECURSIVE SeqsUpTo(_, _)
SeqsUpTo(S, n) ==
  IF n = 0 THEN {<<>>}
  ELSE LET shorter == SeqsUpTo(S, n - 1)
       IN shorter \cup {Append(q, x) : q \in {r \in shorter : Len(r) = n - 1},
                                        x \in S}

\* The files the model reads: every sequence of at most MaxLines lines.
InputFiles == SeqsUpTo(UrlLineIds, MaxLines)
RangeFiles == SeqsUpTo(LineIds, MaxLines)

\* The values --start and --end are given on the command line.
Offsets == {None, Str(<<"0",":","0","5">>)}

\* `line.strip() and not line.strip().startswith("#")`: the lines both
\* scripts keep (src/main.py 136-140, src/main_start_end.py 125-127).
KeepLine(line) == strip(line) # <<>> /\ ~StartsWith(strip(line), <<"#">>)

RECURSIVE ReadJobs(_)
ReadJobs(file) ==
  IF file = <<>> THEN <<>>
  ELSE (IF KeepLine(LineTable[Head(file)]) THEN <<Head(file)>> ELSE <<>>)
       \o ReadJobs(Tail(file))

\* The url download_vod of src/main.py is given for a kept line.
UrlOf(id) == strip(LineTable[id])

(***************************************************************************)
(* The external metadata capability: what `yt-dlp --dump-json` can answer. *)
(* A field of the JSON document is missing, null or a string.              *)
(***************************************************************************)
Missing == [k |-> "missing", v |-> <<>>]
Null == [k |-> "null", v |-> <<>>]

DocFull ==
  [title |-> Str(<<"a","/","b">>),
   uploader |-> Str(<<"A","r","e","n","a","T","V">>),
   upload_date |-> Str(<<"2","0","2","4","0","1","0","1">>),
   duration |-> Missing,
   webpage_url |-> Str(<<"c","a","n","o","n">>)]
DocBare ==
  [title |-> Missing, uploader |-> Missing, upload_date |-> Missing,
   duration |-> Missing, webpage_url |-> Missing]
DocNullTitle == [DocFull EXCEPT !.title = Null]

Docs == {DocFull, DocBare, DocNullTitle}

\* What subprocess.run gives get_vod_metadata: a non-zero exit, an exit of
\* zero with output that is no JSON, an exit of zero with a JSON document,
\* or an exception (the tool cannot be started).
ResolveResults(installed_) ==
  IF installed_
  THEN {[kind |-> "nonzero", doc |-> DocBare],
        [kind |-> "unparseable", doc |-> DocBare]}
       \cup {[kind |-> "doc", doc |-> d] : d \in Docs}
  ELSE {[kind |-> "raises", doc |-> DocBare]}

\* datetime.datetime.now() rendered "%Y%m%d" and "%Y-%m-%d %H:%M:%S"; the
\* clock is a day number.
DateStr(day) == <<"2","0","2","4","0","1","0">> \o <<ToString(day)>>
StampStr(day) ==
  <<"2","0","2","4","-","0","1","-","0">> \o <<ToString(day)>>
  \o <<" ","1","2",":","0","0",":","0","0">>

\* dict.get(key, default): the default only when the key is missing; a
\* null value is returned as it is.
Get(field, default) == IF field.k = "missing" THEN default ELSE field

CanonicalUrl(vod_id) ==
  <<"h","t","t","p","s",":","/","/","w","w","w",".","t","w","i","t","c","h",
    ".","t","v","/","v","i","d","e","o","s","/">> \o vod_id

\* A resolver that answers a failed call with the fallback values.
get_vod_metadata_Fallback(vod_id, result, day) ==
  LET doc == IF result.kind = "doc" THEN result.doc ELSE DocBare
  IN [title |-> Get(doc.title,
                    Str(<<"U","n","k","n","o","w","n","_","V","O","D","_">>
                        \o vod_id)),
      channel |-> Get(doc.uploader,
                      Str(<<"u","n","k","n","o","w","n","_","c","h","a","n",
                            "n","e","l">>)),
      date |-> Get(doc.upload_date, Str(DateStr(day))),
      duration |-> Get(doc.duration, Str(<<"0">>)),
      url |-> Get(doc.webpage_url, Str(CanonicalUrl(vod_id)))]

\* src/main.py get_vod_metadata: None on a non-zero exit and on any
\* exception, otherwise the five fields with their fallbacks.
get_vod_metadata(vod_id, result, day) ==
  IF result.kind # "doc" THEN None
  ELSE [title |-> Get(result.doc.title,
                      Str(<<"U","n","k","n","o","w","n","_","V","O","D","_">>
                          \o vod_id)),
        channel |-> Get(result.doc.uploader,
                        Str(<<"u","n","k","n","o","w","n","_","c","h","a","n",
                              "n","e","l">>)),
        date |-> Get(result.doc.upload_date, Str(DateStr(day))),
        duration |-> Get(result.doc.duration, Str(<<"0">>)),
        url |-> Get(result.doc.webpage_url, Str(CanonicalUrl(vod_id)))]

(***************************************************************************)
(* The destination path (src/main.py 64-69).                               *)
(***************************************************************************)
\* One character of safe_title.
SafeChar(c) == IF isalnum(c) \/ c \in {" ", "-", "_"} THEN c ELSE "_"

\* The comprehension over metadata["title"] raises TypeError when the title
\* is not iterable (JSON null).
SafeTitleRaises(metadata) == metadata.title.k # "str"

safe_title(metadata) ==
  [i \in 1..Len(metadata.title.v) |-> SafeChar(metadata.title.v[i])]

\* str() of a value inside an f-string.
Fmt(x) == IF x.k = "null" THEN <<"N","o","n","e">> ELSE x.v

filename(metadata, vod_id) ==
  Fmt(metadata.date) \o <<"_">> \o Fmt(metadata.channel) \o <<"_">>
  \o safe_title(metadata) \o <<"_">> \o vod_id \o <<".","m","p","4">>

OutputDir == <<"o","u","t">>

\* os.path.join: an absolute second component replaces the first.
PathJoin(dir, name) ==
  IF StartsWith(name, <<"/">>) THEN name ELSE dir \o <<"/">> \o name

output_path(metadata, vod_id) == PathJoin(OutputDir, filename(metadata, vod_id))

(***************************************************************************)
(* The ledger vod_records.csv: a sequence of rows, each a sequence of      *)
(* fields.                                                                 *)
(***************************************************************************)
HeaderRow ==
  << <<"v","o","d","_","i","d">>, <<"t","i","t","l","e">>,
     <<"c","h","a","n","n","e","l">>, <<"d","a","t","e">>,
     <<"d","o","w","n","l","o","a","d","_","d","a","t","e">>,
     <<"u","r","l">> >>

\* csv.writer writes None as the empty field.
CsvField(x) == IF x.k = "null" THEN <<>> ELSE x.v

\* A row with the title and the channel in each other's column.
LedgerRow_Swapped(vod_id, metadata, day) ==
  << vod_id, CsvField(metadata.channel), CsvField(metadata.title),
     CsvField(metadata.date), StampStr(day), CsvField(metadata.url) >>

\* The row download_vod appends (src/main.py 102-111).
LedgerRow(vod_id, metadata, day) ==
  << vod_id, CsvField(metadata.title), CsvField(metadata.channel),
     CsvField(metadata.date), StampStr(day), CsvField(metadata.url) >>

(***************************************************************************)
(* State.                                                                  *)
(***************************************************************************)
VARIABLES
  script,        \* "main" (src/main.py) or "start_end" (src/main_start_end.py)
  installed,     \* whether yt-dlp can be started
  workers,       \* max_workers
  file,          \* the lines of urls_file
  default_start, \* --start of src/main_start_end.py (None when not given)
  default_end,   \* --end of src/main_start_end.py (None when not given)
  mainpc,        \* where the main thread is
  tasks,         \* the kept lines, one job each, in file order
  pc,            \* each job's position in download_vod, or its terminal state
  meta,          \* each job's resolved metadata (None before and on failure)
  rkind,         \* each job's answer from the metadata capability
  fkind,         \* each job's answer from the fetch capability
  dirExists,     \* whether output_dir exists
  files,         \* the paths under output_dir that hold a media file
  intact,        \* those of them whose transfer ran to its end
  ledger,        \* the rows of vod_records.csv; <<>> when there is no file
  summary,       \* <<success_count, total>> once printed, <<>> before
  entered,       \* whether batch_process was entered in this run
  run,           \* the number of the current run on this output directory
  today,         \* the clock, a day number
  prevDone,      \* the destinations of the jobs earlier runs reported done
  prevReported,  \* how many jobs earlier runs reported successful
  prevFetched,   \* how many jobs earlier runs fetched with exit 0
  call           \* one function of the scripts called on its own: its name,
                 \* its arguments, and its outcome once it has run

vars == <<script, installed, workers, file, default_start, default_end,
          mainpc, tasks, pc, meta, rkind, fkind, dirExists, files, intact,
          ledger, summary, entered, run, today, prevDone, prevReported,
          prevFetched, call>>

config == <<script, installed, workers, file, default_start, default_end>>
disk == <<dirExists, files, intact, ledger>>
history == <<prevDone, prevReported, prevFetched>>

Jobs == DOMAIN pc

InFlight == {"resolving", "fetching", "appending"}
Returned == {"Invalid", "Resolving-Failed", "Skipped", "Fetch-Failed",
             "Succeeded"}
Finished == Returned \cup {"Raised", "Cancelled"}

Running == {j \in Jobs : pc[j] \in InFlight}
Pending == {j \in Jobs : pc[j] = "pending"}

\* extract_vod_id of every line of the table, computed once.
VodIdOfLine == [id \in LineIds |-> extract_vod_id(UrlOf(id))]

\* The value of vod_id inside download_vod for job j.
VodId(j) == VodIdOfLine[tasks[j]]

\* A skip-check that never finds the file.
path_exists_Never(path) == FALSE

\* os.path.exists(output_path).
path_exists(path) == path \in files

\* No function is being called on its own.
NoCall == [fn |-> "none", arg |-> <<>>, done |-> FALSE, out |-> <<>>]

\* Nothing has run yet on the output directory.
Fresh ==
  /\ tasks = <<>>
  /\ pc = <<>>
  /\ meta = <<>>
  /\ rkind = <<>>
  /\ fkind = <<>>
  /\ dirExists = FALSE
  /\ files = {}
  /\ intact = {}
  /\ ledger = <<>>
  /\ summary = <<>>
  /\ entered = FALSE
  /\ run = 1
  /\ today = 1
  /\ prevDone = {}
  /\ prevReported = 0
  /\ prevFetched = 0

Init ==
  /\ script \in {"main", "start_end"}
  /\ installed \in BOOLEAN
  /\ workers \in 1..MaxWorkers
  /\ file \in (IF script = "main" THEN InputFiles ELSE RangeFiles)
  /\ default_start \in (IF script = "main" THEN {None} ELSE Offsets)
  /\ default_end \in (IF script = "main" THEN {None} ELSE Offsets)
  /\ mainpc \in {"main", "batch_process"}
  /\ Fresh
  /\ call = NoCall

(***************************************************************************)
(* The main thread.                                                        *)
(***************************************************************************)
\* main() up to its call of batch_process.  src/main.py 177-185 returns
\* when yt-dlp cannot be started and calls batch_process otherwise.
\* src/main_start_end.py 192-203 does the same check, but declares its
\* option as "--start" "-s" (one string, "--start-s"), so evaluating
\* args.start for the call raises AttributeError before batch_process is
\* entered.
main ==
  /\ mainpc = "main"
  /\ mainpc' = IF ~installed THEN "returned"
               ELSE IF script = "main" THEN "batch_process"
               ELSE "crashed"
  /\ UNCHANGED <<call, config, tasks, pc, meta, rkind, fkind, disk, summary,
                 entered, run, today, history>>

\* A ledger that is opened for writing whether or not it exists.
EnsureLedger_Rewrite(l) == <<HeaderRow>>

\* The rows of the ledger after src/main.py 125-132.
EnsureLedger(l) == IF l = <<>> THEN <<HeaderRow>> ELSE l

\* batch_process of src/main.py up to the submission of every job to the
\* pool (122-148): the directory, the ledger with its header, the job list.
batch_process ==
  /\ mainpc = "batch_process"
  /\ script = "main"
  /\ entered' = TRUE
  /\ dirExists' = TRUE
  /\ ledger' = EnsureLedger(ledger)
  /\ tasks' = ReadJobs(file)
  /\ pc' = [j \in 1..Len(ReadJobs(file)) |-> "pending"]
  /\ meta' = [j \in 1..Len(ReadJobs(file)) |-> None]
  /\ rkind' = [j \in 1..Len(ReadJobs(file)) |-> "none"]
  /\ fkind' = [j \in 1..Len(ReadJobs(file)) |-> "none"]
  /\ mainpc' = "pool"
  /\ UNCHANGED <<call, config, files, intact, summary, run, today, history>>

\* One entry of download_tasks (src/main_start_end.py 130-137): the first
\* token is the url, the second and third are the offsets, the defaults
\* standing in for the tokens the line does not have.
parse_task(line, dstart, dend) ==
  LET parts == SplitWs(strip(line))
  IN [url |-> parts[1],
      start_time |-> IF Len(parts) > 1 THEN Str(parts[2]) ELSE dstart,
      end_time |-> IF Len(parts) > 2 THEN Str(parts[3]) ELSE dend]

\* download_tasks of src/main_start_end.py once the file is read.
download_tasks ==
  [i \in 1..Len(tasks) |->
     parse_task(LineTable[tasks[i]], default_start, default_end)]

\* batch_process of src/main_start_end.py (114-157): the directory and the
\* task list are made, then `concurrent.futures.ThreadPoolExecutor` raises
\* NameError, the name `concurrent` never being imported: no task is
\* submitted.
batch_process_start_end ==
  /\ mainpc = "batch_process"
  /\ script = "start_end"
  /\ entered' = TRUE
  /\ dirExists' = TRUE
  /\ tasks' = ReadJobs(file)
  /\ mainpc' = "crashed"
  /\ UNCHANGED <<call, config, pc, meta, rkind, fkind, files, intact, ledger,
                 summary, run, today, history>>

(***************************************************************************)
(* The pool and download_vod of src/main.py, one action per step between   *)
(* two external calls.                                                     *)
(***************************************************************************)
\* A pool that starts a thread for every queued job.
PoolHasIdleWorker_Unbounded == TRUE

\* ThreadPoolExecutor(max_workers=max_workers): a queued job starts only
\* on an idle worker thread.
PoolHasIdleWorker == Cardinality(Running) < workers

\* A worker takes the oldest queued job (the queue is first in, first out)
\* and runs download_vod up to the start of the metadata call (52-59, 27-28).
download_vod_start(j) ==
  /\ mainpc = "pool"
  /\ Pending # {}
  /\ j = SetMin(Pending)
  /\ PoolHasIdleWorker
  /\ pc' = [pc EXCEPT ![j] = IF Truthy(VodId(j)) THEN "resolving"
                             ELSE "Invalid"]
  /\ UNCHANGED <<call, config, mainpc, tasks, meta, rkind, fkind, disk, summary,
                 entered, run, today, history>>

\* Where download_vod goes once get_vod_metadata has returned (60-74): out
\* with False without metadata, out with TypeError when the title cannot be
\* iterated, out with True when the destination exists, on to the fetch
\* otherwise.
AfterResolve(vod_id, metadata) ==
  IF metadata = None THEN "Resolving-Failed"
  ELSE IF SafeTitleRaises(metadata) THEN "Raised"
  ELSE IF path_exists(output_path(metadata, vod_id)) THEN "Skipped"
  ELSE "fetching"

\* The metadata call returns with result r; download_vod runs up to its
\* return or to the start of the fetch (30-48, 60-91).
resolve_return(j, r) ==
  /\ mainpc \in {"pool", "unwinding"}
  /\ pc[j] = "resolving"
  /\ LET metadata == get_vod_metadata(VodId(j).v, r, today)
     IN /\ meta' = [meta EXCEPT ![j] = metadata]
        /\ pc' = [pc EXCEPT ![j] = AfterResolve(VodId(j).v, metadata)]
  /\ rkind' = [rkind EXCEPT ![j] = r.kind]
  /\ UNCHANGED <<call, config, mainpc, tasks, fkind, disk, summary, entered, run,
                 today, history>>

\* The destination of a job that has passed the title check.
Dest(j) == output_path(meta[j], VodId(j).v)

\* yt-dlp is started with --no-part (85): it writes the media straight into
\* output_path, which therefore exists while the transfer runs.
fetch_progress(j) ==
  /\ mainpc \in {"pool", "unwinding"}
  /\ pc[j] = "fetching"
  /\ Dest(j) \notin files
  /\ files' = files \cup {Dest(j)}
  /\ UNCHANGED <<call, config, mainpc, tasks, pc, meta, rkind, fkind, dirExists,
                 intact, ledger, summary, entered, run, today, history>>

FetchResults == {"zero", "nonzero", "raises"}

\* A download_vod that takes every exit of the fetch for a success.
AfterFetch_AlwaysAppend(f) == "appending"

\* Where download_vod goes once subprocess.run of the fetch is over
\* (90-118): into the `with open(..., "a")` block on exit 0, out with False
\* on another exit or on an exception.
AfterFetch(f) == IF f = "zero" THEN "appending" ELSE "Fetch-Failed"

\* A fetch that writes its media somewhere else than at `-o output_path`.
FilesAfterFetch_Elsewhere(fs, dest, f) == fs

\* The files after a fetch with `-o output_path` (83-84): on exit 0 the
\* media is at the destination.
FilesAfterFetch(fs, dest, f) == IF f = "zero" THEN fs \cup {dest} ELSE fs

\* The fetch is over with result f.  On exit 0 the media is complete at the
\* destination; otherwise what the transfer wrote so far stays where it is,
\* the code removing nothing.
fetch_return(j, f) ==
  /\ mainpc \in {"pool", "unwinding"}
  /\ pc[j] = "fetching"
  /\ fkind' = [fkind EXCEPT ![j] = f]
  /\ pc' = [pc EXCEPT ![j] = AfterFetch(f)]
  /\ files' = FilesAfterFetch(files, Dest(j), f)
  /\ intact' = IF f = "zero" THEN intact \cup {Dest(j)} ELSE intact
  /\ UNCHANGED <<call, config, mainpc, tasks, meta, rkind, dirExists, ledger,
                 summary, entered, run, today, history>>

\* The ledger after writer.writerow and the close of the file (95-111).
AppendRow(l, row) == Append(l, row)

\* The row is written when the `with` block closes the file, and
\* download_vod returns True (95-112).
ledger_append(j) ==
  /\ mainpc \in {"pool", "unwinding"}
  /\ pc[j] = "appending"
  /\ ledger' = AppendRow(ledger, LedgerRow(VodId(j).v, meta[j], today))
  /\ pc' = [pc EXCEPT ![j] = "Succeeded"]
  /\ UNCHANGED <<call, config, mainpc, tasks, meta, rkind, fkind, dirExists, files,
                 intact, summary, entered, run, today, history>>

(***************************************************************************)
(* The main thread inside `list(executor.map(...))` (144-152).             *)
(***************************************************************************)
\* The results are taken in job order: the first job whose call raised, once
\* every job before it has returned.
FirstRaised ==
  {k \in Jobs : pc[k] = "Raised" /\ \A i \in 1..(k - 1) : pc[i] \in Returned}

\* The result iterator re-raises the job's exception; its `finally` cancels
\* every job still queued, and the `with` block then waits for the running
\* ones.
map_raises ==
  /\ mainpc = "pool"
  /\ FirstRaised # {}
  /\ pc' = [j \in Jobs |-> IF pc[j] = "pending" THEN "Cancelled" ELSE pc[j]]
  /\ mainpc' = "unwinding"
  /\ UNCHANGED <<call, config, tasks, meta, rkind, fkind, disk, summary, entered,
                 run, today, history>>

\* The exception leaves batch_process and main once the pool has shut
\* down: no summary is printed.
batch_process_raises ==
  /\ mainpc = "unwinding"
  /\ Running = {}
  /\ mainpc' = "crashed"
  /\ UNCHANGED <<call, config, tasks, pc, meta, rkind, fkind, disk, summary,
                 entered, run, today, history>>

\* A count of the fetched jobs only.
success_count_FetchedOnly == Cardinality({j \in Jobs : pc[j] = "Succeeded"})

\* sum(1 for r in results if r): the jobs that returned True.
success_count == Cardinality({j \in Jobs : pc[j] \in {"Succeeded", "Skipped"}})

\* Every job has returned: the summary is printed and batch_process
\* returns (150-152).
batch_process_returns ==
  /\ mainpc = "pool"
  /\ \A j \in Jobs : pc[j] \in Returned
  /\ summary' = <<success_count, Len(tasks)>>
  /\ mainpc' = "done"
  /\ UNCHANGED <<call, config, tasks, pc, meta, rkind, fkind, disk, entered, run,
                 today, history>>

(***************************************************************************)
(* The operator runs the script again on the same file and directory.      *)
(***************************************************************************)
RunOver == mainpc \in {"returned", "done", "crashed"}

\* The exit status of the process (`if __name__ == "__main__": main()`): 0
\* when main returns, 1 when an exception leaves it.
exit_status == IF mainpc = "crashed" THEN 1 ELSE 0

next_run ==
  /\ RunOver
  /\ run < MaxRuns
  /\ run' = run + 1
  /\ today' \in {today, today + 1}
  /\ mainpc' \in {"main", "batch_process"}
  /\ tasks' = <<>>
  /\ pc' = <<>>
  /\ meta' = <<>>
  /\ rkind' = <<>>
  /\ fkind' = <<>>
  /\ summary' = <<>>
  /\ entered' = FALSE
  /\ prevDone' = prevDone \cup
       {Dest(j) : j \in {i \in Jobs : pc[i] \in {"Succeeded", "Skipped"}}}
  /\ prevReported' = prevReported + success_count
  /\ prevFetched' = prevFetched
                    + Cardinality({j \in Jobs : pc[j] = "Succeeded"})
  /\ UNCHANGED <<call, config, disk>>

(***************************************************************************)
(* The functions of the scripts, each called on its own.                   *)
(***************************************************************************)
yt_dlp == <<"y","t","-","d","l","p">>
OutputTemplate == <<"/","%","(","t","i","t","l","e",")","s",".","%","(","e","x","t",")","s">>
download_sections == <<"-","-","d","o","w","n","l","o","a","d","-","s","e","c","t","i","o","n","s">>

\* The command download_vod of src/main_start_end.py builds (89-102).
download_cmd(url, output_dir, quality, start_time, end_time) ==
  <<yt_dlp, <<"-","o">>, output_dir \o OutputTemplate>>
  \o (IF Truthy(quality) THEN << <<"-","f">>, quality.v >> ELSE <<>>)
  \o (IF Truthy(start_time)
      THEN << download_sections,
              <<"*">> \o start_time.v
              \o (IF Truthy(end_time) THEN <<"-">> \o end_time.v ELSE <<>>) >>
      ELSE <<>>)
  \o <<url>>

Raises == [k |-> "raises", v |-> <<>>]

\* download_vod of src/main_start_end.py (86-110): the command is built and
\* run whatever the url is; the url is returned on exit 0 and an Exception
\* is raised on another exit.
download_vod(url, output_dir, quality, start_time, end_time, exit) ==
  [ran |-> download_cmd(url, output_dir, quality, start_time, end_time),
   result |-> IF exit = "zero" THEN Str(url) ELSE Raises]

\* The printable ASCII characters in the order of their code points, from
\* the space (32) to the tilde (126); the double quote, the backslash
\* and the grave accent are the atoms "U+0022", "U+005C" and "U+0060".
Ascii ==
  <<" ","!","U+0022","#","$","%","&","'","(",")","*","+",",","-",".","/",
    "0","1","2","3","4","5","6","7","8","9",":",";","<","=",">","?",
    "@","A","B","C","D","E","F","G","H","I","J","K","L","M","N","O",
    "P","Q","R","S","T","U","V","W","X","Y","Z","[","U+005C","]","^","_",
    "U+0060","a","b","c","d","e","f","g","h","i","j","k","l","m","n","o",
    "p","q","r","s","t","u","v","w","x","y","z","{","|","}","~">>

\* ord(c) of Python for a printable ASCII character.
ord(c) == 31 + CHOOSE i \in 1..Len(Ascii) : Ascii[i] = c

\* a < b for Python strings: the order of the code points at the first
\* difference, a proper prefix before the longer string.
RECURSIVE TextLess(_, _)
TextLess(a, b) ==
  IF b = <<>> THEN FALSE
  ELSE IF a = <<>> THEN TRUE
  ELSE IF Head(a) = Head(b) THEN TextLess(Tail(a), Tail(b))
  ELSE ord(Head(a)) < ord(Head(b))

\* sorted(S) for a set of strings.
RECURSIVE sorted(_)
sorted(S) ==
  IF S = {} THEN <<>>
  ELSE LET m == CHOOSE x \in S : \A y \in S \ {x} : TextLess(x, y)
       IN <<m>> \o sorted(S \ {m})

Range(q) == {q[i] : i \in DOMAIN q}

\* A text file as its lines, without their line ends; NoFile is the path
\* at which no file exists.
NoFile == [exists |-> FALSE, lines |-> <<>>]
TextFile(lines) == [exists |-> TRUE, lines |-> lines]

\* A save that writes the given links only.
save_vod_links_Overwrite(vod_links, output_file) ==
  [new_links |-> Range(vod_links)
                 \ {strip(l) : l \in {x \in Range(output_file.lines) :
                                        strip(x) # <<>>}},
   file |-> TextFile(sorted(Range(vod_links)))]

\* save_vod_links of src/twitch_vod_extractor.py (100-122, the same in
\* src/twitch_vod_extractor_debug.py 163-186): the stripped non-blank
\* lines of the file when it exists, the links not among them, and the
\* file rewritten with both, sorted.
save_vod_links(vod_links, output_file) ==
  LET existing_links ==
        IF output_file.exists
        THEN {strip(l) : l \in {x \in Range(output_file.lines) :
                                  strip(x) # <<>>}}
        ELSE {}
      new_links == Range(vod_links) \ existing_links
  IN [new_links |-> new_links,
      file |-> TextFile(sorted(existing_links \cup new_links))]

\* The links the extractor finds, and the lines a links file may hold: a
\* link, a link between spaces, an empty line.
LinkTexts == {<<"v","1">>, <<"v","1","0">>, <<"v","2">>}
FileLineTexts == LinkTexts \cup {<<" ","v","2"," ">>, <<>>}

SaveInputs ==
  [vod_links : SeqsUpTo(LinkTexts, MaxLinks),
   file : {NoFile} \cup {TextFile(q) : q \in SeqsUpTo(FileLineTexts,
                                                       MaxFileLines)}]

https == <<"h","t","t","p","s",":","/","/">>
www == <<"w","w","w",".">>
Hosts == {twitch_tv, www \o twitch_tv, <<"n","o","t">> \o twitch_tv,
          <<"a",".","i","o">>}
Segments == {videos, video, <<"5">>, <<"c">>, <<>>}

\* The path made of the segments: each one after a "/".
RECURSIVE PathText(_)
PathText(segs) ==
  IF segs = <<>> THEN <<>>
  ELSE <<"/">> \o Head(segs) \o PathText(Tail(segs))

\* The URL made of a scheme (or none), a host and path segments.
UrlText(u) == u.scheme \o u.host \o PathText(u.segs)

UrlInputs ==
  [scheme : {https, <<>>}, host : Hosts,
   segs : SeqsUpTo(Segments, MaxSegments)]

TitleChars == {"a", "/", " ", "-", "U+00E9"}

PathInputs ==
  [metadata : [title : {Str(t) : t \in SeqsUpTo(TitleChars, MaxTitleLen)},
               channel : {Str(<<"T","V">>), Str(<<"x">>),
                          Str(<<"a","/","b">>)},
               date : {Str(<<"2","0","2","4","0","1","0","1">>)},
               duration : {Str(<<"0">>)},
               url : {Str(<<"u">>)}],
   vod_id : {<<"5">>, <<"7">>}]

FetchInputs ==
  [url : {UrlOf(1), UrlOf(3)},
   quality : {Str(<<"b","e","s","t">>), None},
   start_time : {None, Str(<<"0",":","1","0">>)},
   end_time : {None, Str(<<"0",":","2","0">>)},
   exit : {"zero", "nonzero"}]

Calls ==
  {[fn |-> "extract_vod_id", arg |-> u, done |-> FALSE, out |-> <<>>] :
     u \in UrlInputs}
  \cup {[fn |-> "output_path", arg |-> a, done |-> FALSE, out |-> <<>>] :
          a \in PathInputs}
  \cup {[fn |-> "download_vod", arg |-> a, done |-> FALSE, out |-> <<>>] :
          a \in FetchInputs}
  \cup {[fn |-> "save_vod_links", arg |-> a, done |-> FALSE, out |-> <<>>] :
          a \in SaveInputs}

\* Everything a run of a script reads or writes.
batch == <<config, mainpc, tasks, pc, meta, rkind, fkind, disk, summary,
           entered, run, today, history>>

InitFn ==
  /\ script = "main"
  /\ installed = TRUE
  /\ workers = 1
  /\ file = <<>>
  /\ default_start = None
  /\ default_end = None
  /\ mainpc = "main"
  /\ Fresh
  /\ call \in Calls

call_extract_vod_id ==
  /\ call.fn = "extract_vod_id"
  /\ ~call.done
  /\ call' = [call EXCEPT !.done = TRUE,
                          !.out = extract_vod_id(UrlText(call.arg))]
  /\ UNCHANGED batch

call_output_path ==
  /\ call.fn = "output_path"
  /\ ~call.done
  /\ call' = [call EXCEPT !.done = TRUE,
                          !.out = output_path(call.arg.metadata,
                                              call.arg.vod_id)]
  /\ UNCHANGED batch

call_download_vod ==
  /\ call.fn = "download_vod"
  /\ ~call.done
  /\ call' = [call EXCEPT !.done = TRUE,
                          !.out = download_vod(call.arg.url, OutputDir,
                                               call.arg.quality,
                                               call.arg.start_time,
                                               call.arg.end_time,
                                               call.arg.exit)]
  /\ UNCHANGED batch

\* save_vod_links is called on the file, and once more with the same
\* links on the file the first call has written; out holds the outcome of
\* each call.
call_save_vod_links ==
  /\ call.fn = "save_vod_links"
  /\ Len(call.out) < 2
  /\ LET f == IF call.out = <<>> THEN call.arg.file
              ELSE call.out[Len(call.out)].file
     IN call' = [call EXCEPT
                   !.done = TRUE,
                   !.out = Append(call.out,
                                  save_vod_links(call.arg.vod_links, f))]
  /\ UNCHANGED batch

NextFn ==
  \/ call_extract_vod_id
  \/ call_save_vod_links
  \/ call_output_path
  \/ call_download_vod

SpecFn == InitFn /\ [][NextFn]_vars

\* One run of a script.
Next ==
  \/ main
  \/ batch_process
  \/ batch_process_start_end
  \/ \E j \in Jobs : download_vod_start(j)
  \/ \E j \in Jobs : \E r \in ResolveResults(installed) : resolve_return(j, r)
  \/ \E j \in Jobs : fetch_progress(j)
  \/ \E j \in Jobs : \E f \in FetchResults : fetch_return(j, f)
  \/ \E j \in Jobs : ledger_append(j)
  \/ map_raises
  \/ batch_process_raises
  \/ batch_process_returns

Spec == Init /\ [][Next]_vars

\* The files on which repeated runs are explored: two distinct jobs, the
\* same job twice, an invalid reference before a job, a comment before a job.
RerunFiles == {<<1, 2>>, <<1, 1>>, <<3, 1>>, <<4, 2>>}

\* A pool wider than the job list runs it as a pool as wide as the list
\* does, so the repeated runs take no wider one.
InitRuns == Init /\ file \in RerunFiles /\ workers <= Len(file)

\* Up to MaxRuns runs in sequence on one file and one output directory.
NextRuns == Next \/ next_run

SpecRuns == InitRuns /\ [][NextRuns]_vars

(***************************************************************************)
(* Properties.                                                             *)
(***************************************************************************)
Fetching == {j \in Jobs : pc[j] = "fetching"}
Resolving == {j \in Jobs : pc[j] = "resolving"}
Succeeded == {j \in Jobs : pc[j] = "Succeeded"}

\* Job j has resolved metadata from which a destination path was computed.
HasDest(j) == meta[j] # None /\ ~SafeTitleRaises(meta[j])

\* C1: with worker count N, at most N fetch invocations and at most N
\* metadata invocations are in flight in any state of a run.
C1_ConcurrencyBound ==
  /\ Cardinality(Fetching) <= workers
  /\ Cardinality(Resolving) <= workers
  /\ Cardinality(Running) <= workers

\* The bound binds: every worker is busy in an external call while a job
\* waits in the queue.
C1_Witness ==
  /\ Cardinality(Fetching) = workers
  /\ Pending # {}

\* C2 as stated, with yt-dlp installed: the second run invokes no fetch at
\* all, and every job of the list ends Skipped in it.
C2_Original ==
  (run >= 2 /\ installed) =>
    /\ \A j \in Jobs : pc[j] # "fetching" /\ fkind[j] = "none"
    /\ mainpc \in {"done", "crashed"} => \A j \in Jobs : pc[j] = "Skipped"

\* C2 as amended: in a later run, a job that resolves to a destination at
\* which a job of an earlier run ended Succeeded or Skipped is never
\* fetched: its skip-check fires and it ends Skipped.
C2_RerunSkipsDone ==
  \A j \in Jobs :
    (HasDest(j) /\ Dest(j) \in prevDone) =>
      pc[j] = "Skipped" /\ fkind[j] = "none"

\* A second run ends with a job skipped at a destination the first run
\* completed.
C2_Witness ==
  /\ run = 2
  /\ mainpc = "done"
  /\ \E j \in Jobs : HasDest(j) /\ Dest(j) \in prevDone /\ pc[j] = "Skipped"

\* The five fields of a ledger row that come from the resolved metadata.
RowFacts(row) == <<row[1], row[2], row[3], row[4], row[6]>>

\* The same five fields as resolved for job j.
JobFacts(j) ==
  <<VodId(j).v, meta[j].title.v, meta[j].channel.v, meta[j].date.v,
    meta[j].url.v>>

\* The rows the current run has appended.
RowsOfRun == {i \in 1..Len(ledger) : i > 1 + prevFetched}

\* C3 as stated: after K jobs reported successful (download_vod returned
\* True), the ledger is the header followed by exactly K data rows.  It is
\* stated of the directories that hold complete files only, so that its
\* failure owes nothing to a transfer that stopped half way.
C3_Original ==
  (script = "main" /\ mainpc \in {"done", "crashed"} /\ files = intact) =>
    /\ ledger # <<>>
    /\ ledger[1] = HeaderRow
    /\ Len(ledger) = 1 + prevReported + success_count

\* C3 as amended: after K jobs that ended Succeeded (their fetch exited
\* zero; a job reported as already downloaded is not counted), the ledger
\* is the header followed by exactly K data rows, and the rows of a run
\* carry, row for row, the id, title, owner, date and url resolved for the
\* jobs that ended Succeeded in it.
C3_LedgerRowsMatchSucceeded ==
  (script = "main" /\ dirExists) =>
    /\ ledger # <<>>
    /\ ledger[1] = HeaderRow
    /\ \A i \in 2..Len(ledger) : ledger[i] # HeaderRow
    /\ Len(ledger) = 1 + prevFetched + Cardinality(Succeeded)
    /\ \A i \in RowsOfRun :
         Cardinality({k \in RowsOfRun : RowFacts(ledger[k]) = RowFacts(ledger[i])})
         = Cardinality({j \in Succeeded : JobFacts(j) = RowFacts(ledger[i])})

\* Two runs have each appended a row, and the second has also skipped a
\* job.
C3_Witness ==
  /\ run = 2
  /\ mainpc = "done"
  /\ prevFetched >= 1
  /\ Succeeded # {}
  /\ \E j \in Jobs : pc[j] = "Skipped"

\* C4: at most one worker is between opening the ledger for append and
\* the end of its write.
C4_AppendExclusive == Cardinality({j \in Jobs : pc[j] = "appending"}) <= 1

\* No other job of the run resolves to the destination of job j.
SoleWriter(j) == \A i \in Jobs \ {j} : HasDest(i) => Dest(i) # Dest(j)

\* C5: once a job is in its terminal state, no file is at its destination
\* when its fetch exited non-zero, and a file is there when it exited zero.
C5_FileMatchesOutcome ==
  \A j \in Jobs :
    /\ (pc[j] = "Fetch-Failed" /\ SoleWriter(j)) => Dest(j) \notin files
    /\ pc[j] = "Succeeded" => Dest(j) \in files

\* C6: whatever happens inside one job, it is recorded as failed, no
\* exception leaves download_vod, and no other job's outcome changes: no
\* job is dropped and the batch is not aborted.
C6_NoJobAbortsBatch ==
  script = "main" =>
    /\ \A j \in Jobs : pc[j] \notin {"Raised", "Cancelled"}
    /\ mainpc \notin {"unwinding", "crashed"}

FailedResolution == {"nonzero", "unparseable", "raises"}

\* C7: a job whose metadata resolution failed is in Resolving-Failed, has
\* no metadata and hence no destination, and no fetch was invoked for it;
\* every file and every ledger row of the run belongs to a job that
\* resolved; and the failure cancels no other job.
C7_ResolutionFailureIsLocal ==
  /\ \A j \in Jobs :
       rkind[j] \in FailedResolution =>
         pc[j] = "Resolving-Failed" /\ meta[j] = None /\ fkind[j] = "none"
  /\ files \subseteq {Dest(j) : j \in {i \in Jobs : HasDest(i) /\ rkind[i] = "doc"}}
  /\ Len(ledger) <= 1 + Cardinality({j \in Jobs : rkind[j] = "doc"
                                                  /\ fkind[j] = "zero"})
  /\ (\E j \in Jobs : pc[j] = "Cancelled") =>
       \E k \in Jobs : pc[k] = "Raised" /\ rkind[k] = "doc"

\* A resolution failed with a non-zero exit, and a later job of the batch
\* was still downloaded.
C7_Witness ==
  \E j, i \in Jobs :
    /\ j < i
    /\ rkind[j] = "nonzero"
    /\ pc[j] = "Resolving-Failed"
    /\ pc[i] = "Succeeded"

\* C8: when the destination exists as download_vod checks it, the job ends
\* Skipped (it returns True) in that very step, the step changes neither a
\* file nor the ledger, and the job stays Skipped with no fetch invoked.
C8_SkipCheck ==
  [][\A j \in Jobs :
       /\ ( /\ pc[j] = "resolving"
            /\ run' = run
            /\ pc'[j] # "resolving"
            /\ meta'[j] # None
            /\ ~SafeTitleRaises(meta'[j])
            /\ output_path(meta'[j], VodId(j).v) \in files )
          => ( /\ pc'[j] = "Skipped"
               /\ fkind'[j] = "none"
               /\ files' = files
               /\ intact' = intact
               /\ ledger' = ledger )
       /\ (pc[j] = "Skipped" /\ run' = run)
          => (pc'[j] = "Skipped" /\ fkind'[j] = "none"
              /\ (pc'[j] \in {"Succeeded", "Skipped"}))
    ]_vars

\* A job of a second run was skipped over a file an earlier run left.
C8_Witness ==
  /\ run = 2
  /\ \E j \in Jobs : pc[j] = "Skipped" /\ fkind[j] = "none"
                     /\ Dest(j) \in files

\* C9: a run that entered batch_process ends with every job in a terminal
\* state of download_vod and with the summary printed.
C9_RunEndsWithSummary ==
  (entered /\ mainpc \notin {"batch_process", "pool", "unwinding"}) =>
    /\ mainpc = "done"
    /\ summary = <<success_count, Len(tasks)>>
    /\ \A j \in Jobs : pc[j] \in Returned

\* C10: when yt-dlp is missing, main returns with nothing read, invoked
\* or created; when it is installed, main enters batch_process.
C10_AbortOrEnter ==
  /\ mainpc = "returned" =>
       /\ ~installed
       /\ ~entered
       /\ tasks = <<>>
       /\ pc = <<>>
       /\ ~dirExists
       /\ ledger = <<>>
  /\ (installed /\ mainpc # "main") => (mainpc = "batch_process" \/ entered)

\* C11: the exit status of a run started through main is non-zero exactly
\* when yt-dlp is not installed, whatever the outcomes of the jobs.
C11_ExitStatusIffMissing ==
  (RunOver /\ (entered => installed /\ script = "main")) =>
    (exit_status # 0 <=> ~installed)

\* The hosts of the platform domain.
PlatformHosts == {twitch_tv, www \o twitch_tv}

\* C12: extract_vod_id returns exactly the segment that follows the first
\* `videos` or `video` segment when the URL has a scheme, its host is of the
\* platform domain and that segment is not empty; for every other input
\* (another host, the platform domain as a mere substring of the host
\* included, no scheme, an empty or missing segment) it returns no id.
C12_ExtractsExactlyTheId ==
  (call.fn = "extract_vod_id" /\ call.done) =>
    LET u == call.arg
        at == {i \in 1..(Len(u.segs) - 1) : u.segs[i] \in {videos, video}}
        valid == /\ u.scheme # <<>>
                 /\ u.host \in PlatformHosts
                 /\ at # {}
                 /\ u.segs[SetMin(at) + 1] # <<>>
    IN IF valid THEN call.out = Str(u.segs[SetMin(at) + 1])
       ELSE ~Truthy(call.out)

\* The characters [A-Za-z0-9 _-].
Allowed == Lower \cup Upper \cup Digits \cup {" ", "_", "-"}

\* A title with every character outside the allowed set replaced by "_".
Sanitized(t) == [i \in 1..Len(t) |-> IF t[i] \in Allowed THEN t[i] ELSE "_"]

\* C13: the destination is the path <date>_<owner>_<sanitizedTitle>_<id>.mp4
\* under the output directory, a function of the four values alone, where
\* the sanitized title keeps the characters of [A-Za-z0-9 _-] and has "_"
\* in the place of every other one.
C13_FilenameSanitized ==
  (call.fn = "output_path" /\ call.done) =>
    LET m == call.arg.metadata
    IN call.out = OutputDir \o <<"/">> \o m.date.v \o <<"_">> \o m.channel.v
                  \o <<"_">> \o Sanitized(m.title.v) \o <<"_">>
                  \o call.arg.vod_id \o <<".","m","p","4">>

\* The time-range restriction of a command: the argument that follows
\* --download-sections, None when the command has no such option.
Restriction(cmd) ==
  LET at == {i \in 1..(Len(cmd) - 1) : cmd[i] = download_sections}
  IN IF at = {} THEN None ELSE Str(cmd[SetMin(at) + 1])

EndsWith(s, p) == Len(s) >= Len(p) /\ SubSeq(s, Len(s) - Len(p) + 1, Len(s)) = p

\* C14: the command download_vod runs carries a time-range restriction
\* exactly when the job has an offset: `*s-e` with start s and end e, `*s`
\* with start s and no end, none with no offset; and a job with an end
\* offset is never fetched without a restriction ending at that offset.
C14_RangeRestriction ==
  (call.fn = "download_vod" /\ call.done) =>
    LET s == call.arg.start_time
        e == call.arg.end_time
        r == Restriction(call.out.ran)
    IN /\ (s = None /\ e = None) => r = None
       /\ (s # None /\ e = None) => r = Str(<<"*">> \o s.v)
       /\ (s # None /\ e # None) => r = Str(<<"*">> \o s.v \o <<"-">> \o e.v)
       /\ e # None => (r # None /\ EndsWith(r.v, <<"-">> \o e.v))

\* The offsets written after the URL on each line of LineTable.
LineOffsets ==
  << <<>>, <<>>, <<>>, <<>>,
     << <<"0",":","1","0">> >>,
     << <<"0",":","1","0">>, <<"0",":","2","0">> >> >>

\* C15: in src/main_start_end.py a job's start offset is the second token
\* of its line, or the default start of the command line when the line has
\* none, its end offset the third token or the default end; and a run
\* started through main with these defaults enters batch_process and
\* dispatches every job of the list.
C15_OffsetsReachJobs ==
  script = "start_end" =>
    /\ \A i \in 1..Len(tasks) :
         LET given == LineOffsets[tasks[i]]
         IN /\ download_tasks[i].start_time =
                 (IF Len(given) >= 1 THEN Str(given[1]) ELSE default_start)
            /\ download_tasks[i].end_time =
                 (IF Len(given) >= 2 THEN Str(given[2]) ELSE default_end)
    /\ (installed /\ RunOver) =>
         /\ entered
         /\ DOMAIN pc = DOMAIN tasks

\* The moves of a job: Parsed ("pending") to Resolving, or out at once on
\* a reference that holds no id; Resolving to Skipped, Resolving-Failed or
\* Fetching; Fetching, through the ledger append, to Succeeded, or to
\* Fetch-Failed.
JobMoves ==
  {<<"pending", "resolving">>, <<"pending", "Invalid">>,
   <<"resolving", "Skipped">>, <<"resolving", "Resolving-Failed">>,
   <<"resolving", "fetching">>,
   <<"fetching", "appending">>, <<"fetching", "Fetch-Failed">>,
   <<"appending", "Succeeded">>}

\* C16: every step of a job is one of these moves; a job enters Fetching
\* only from Resolving, with a resolved document and no file at its
\* destination; and a job in a terminal state stays in it.
C16_JobStateMachine ==
  [][\A j \in Jobs :
       /\ pc'[j] # pc[j] => <<pc[j], pc'[j]>> \in JobMoves
       /\ (pc'[j] = "fetching" /\ pc[j] # "fetching") =>
            /\ pc[j] = "resolving"
            /\ rkind'[j] = "doc"
            /\ meta'[j] # None
            /\ output_path(meta'[j], VodId(j).v) \notin files
       /\ pc[j] \in Returned => pc'[j] = pc[j]
    ]_vars

IsPrefix(a, b) == Len(a) <= Len(b) /\ SubSeq(b, 1, Len(a)) = a

\* C17: over every step of every run the ledger only grows at its end (the
\* rows it held are a prefix of the rows it holds), and whenever it exists
\* its first row is the header and no other row is the header.
C17_LedgerAppendOnly ==
  [][/\ IsPrefix(ledger, ledger')
     /\ ledger' # <<>> =>
          /\ ledger'[1] = HeaderRow
          /\ \A i \in 2..Len(ledger') : ledger'[i] # HeaderRow
    ]_vars

\* A second run has entered batch_process over a ledger that held a row of
\* the first run, and has appended a row of its own.
C17_Witness ==
  /\ run = 2
  /\ entered
  /\ prevFetched = 1
  /\ Len(ledger) = 3
  /\ ledger[1] = HeaderRow

\* C18: the metadata of every successful resolution has a title and an
\* owner that are non-empty strings.
C18_MetadataNonEmpty ==
  \A j \in Jobs :
    meta[j] # None =>
      /\ meta[j].title.k = "str" /\ meta[j].title.v # <<>>
      /\ meta[j].channel.k = "str" /\ meta[j].channel.v # <<>>

\* C19: for a job whose reference holds no id, download_vod of
\* src/main_start_end.py runs no external command.
C19_InvalidReferenceRunsNothing ==
  (call.fn = "download_vod" /\ call.done
   /\ ~Truthy(extract_vod_id(call.arg.url))) =>
    call.out.ran = <<>>

\* C20: a job whose fetch exited non-zero is in Fetch-Failed and stays
\* there, so that no second fetch is invoked for it; the step that fails it
\* changes no other job and not the ledger, which holds a row for each
\* Succeeded job and no other; the summary counts it among the failed; and
\* no job is cancelled but after a job that raised.
C20_FetchFailureIsLocal ==
  [][/\ \A j \in DOMAIN pc' :
          fkind'[j] = "nonzero" => pc'[j] = "Fetch-Failed"
     /\ \A j \in Jobs :
          (pc[j] = "fetching" /\ pc'[j] = "Fetch-Failed") =>
            /\ \A i \in Jobs \ {j} : pc'[i] = pc[i]
            /\ ledger' = ledger
     /\ \A j \in Jobs : pc[j] = "Fetch-Failed" => pc'[j] = "Fetch-Failed"
     /\ ledger' # <<>> =>
          Len(ledger') = 1 + Cardinality({j \in DOMAIN pc' :
                                           pc'[j] = "Succeeded"
                                           /\ fkind'[j] = "zero"})
     /\ mainpc' = "done" =>
          /\ summary'[1] = Cardinality({j \in DOMAIN pc' :
                                         pc'[j] \in {"Succeeded", "Skipped"}})
          /\ summary'[2] - summary'[1]
               >= Cardinality({j \in DOMAIN pc' : fkind'[j] = "nonzero"})
     /\ (\E j \in DOMAIN pc' : pc'[j] = "Cancelled") =>
          \E k \in DOMAIN pc' : pc'[k] = "Raised"
    ]_vars

\* A run ended with one job failed by a non-zero exit of its fetch and
\* another one downloaded: one of two is reported.
C20_Witness ==
  /\ mainpc = "done"
  /\ summary = <<1, 2>>
  /\ \E j, i \in Jobs :
       /\ fkind[j] = "nonzero"
       /\ pc[j] = "Fetch-Failed"
       /\ pc[i] = "Succeeded"

\* The lines of LineTable that are not blank and do not start, after
\* their leading whitespace, with "#": all but the comment line.
JobLineIds == LineIds \ {4}

IsJobLine(id) == id \in JobLineIds

\* C21: at the end of a run that entered batch_process, the jobs are the
\* non-blank, non-comment lines of the file in file order, duplicates
\* kept, and each of them was handed to a worker: none is left in the
\* queue or cancelled.
C21_EveryJobLineDispatchedOnce ==
  (entered /\ RunOver) =>
    /\ tasks = SelectSeq(file, IsJobLine)
    /\ DOMAIN pc = DOMAIN tasks
    /\ \A j \in Jobs : pc[j] \in Returned \cup {"Raised"}

\* The terminal states in which download_vod returned False.
Failed == {"Invalid", "Resolving-Failed", "Fetch-Failed"}

\* C22: a printed summary is printed at the end of the run; its total is
\* the number of dispatched jobs, its succeeded count (the value
\* batch_process returns) is the number of jobs that ended Succeeded or
\* Skipped, and the succeeded and the failed jobs together are the total.
C22_SummaryConsistent ==
  summary # <<>> =>
    /\ mainpc = "done"
    /\ summary[2] = Cardinality(Jobs)
    /\ summary[2] = Len(tasks)
    /\ summary[1] = Cardinality({j \in Jobs : pc[j] = "Succeeded"})
                    + Cardinality({j \in Jobs : pc[j] = "Skipped"})
    /\ summary[1] + Cardinality({j \in Jobs : pc[j] \in Failed}) = summary[2]

\* A run ended with one job downloaded and one skipped: two of two.
C22_Witness ==
  /\ mainpc = "done"
  /\ summary = <<2, 2>>
  /\ \E j, i \in Jobs : pc[j] = "Succeeded" /\ pc[i] = "Skipped"

\* C23: of two jobs of a run that resolve to the same destination path,
\* only one passes the skip-check: they are never both inside the fetch,
\* and never both fetched with exit zero, which would append two ledger
\* rows for the path.
C23_OneFetchPerDestination ==
  \A i, j \in Jobs :
    (i # j /\ HasDest(i) /\ HasDest(j) /\ Dest(i) = Dest(j)) =>
      /\ ~(pc[i] = "fetching" /\ pc[j] = "fetching")
      /\ ~(pc[i] \in {"appending", "Succeeded"}
           /\ pc[j] \in {"appending", "Succeeded"})

\* C24: the ledger holds no more data rows than fetches have exited zero,
\* each for a job with a media file at its destination; a file found at a
\* destination once the run is over was completed by a fetch that exited
\* zero; and a job is Skipped only over such a file.
C24_RowsAndFilesAreComplete ==
  /\ ledger # <<>> =>
       Len(ledger) - 1 <= Cardinality({j \in Jobs : fkind[j] = "zero"})
  /\ \A j \in Jobs : pc[j] = "Succeeded" =>
       (fkind[j] = "zero" /\ Dest(j) \in files)
  /\ RunOver => files \subseteq intact
  /\ \A j \in Jobs : pc[j] = "Skipped" => Dest(j) \in intact

\* C25: the destination is the output directory, a separator, and a
\* filename ending in .mp4 whose other characters are all of
\* [A-Za-z0-9 _-]: the filename holds no path separator, so the path lies
\* directly inside the output directory.
C25_PathInsideOutputDir ==
  (call.fn = "output_path" /\ call.done) =>
    LET name == Drop(call.out, Len(OutputDir) + 2)
        stem == SubSeq(name, 1, Len(name) - 4)
    IN /\ StartsWith(call.out, OutputDir \o <<"/">>)
       /\ EndsWith(name, <<".","m","p","4">>)
       /\ \A i \in 1..Len(stem) : stem[i] \in Allowed


(***************************************************************************)
(* C26: saving links.                                                      *)
(***************************************************************************)
\* The lines of a file, as a set; none when the file does not exist.
LinesOf(f) == IF f.exists THEN Range(f.lines) ELSE {}

\* The links a file holds: its lines without the white space around them,
\* the blank lines left out.
LinksOf(f) == {strip(l) : l \in LinesOf(f)} \ {<<>>}

\* The lines are in ascending order and no line occurs twice.
SortedNoDuplicates(lines) ==
  \A i \in 1..(Len(lines) - 1) : TextLess(lines[i], lines[i + 1])

SaveDone == call.fn = "save_vod_links" /\ call.done

\* C26 as stated: after a save the file holds exactly the union of the
\* lines it held before and the given links, sorted and without
\* duplicates; the save returns the links that were not lines of the file
\* before; a second save of the same links returns nothing and leaves the
\* file unchanged.
C26_SaveIsUnionOfLines ==
  SaveDone =>
    LET before == call.arg.file
        links == Range(call.arg.vod_links)
        first == call.out[1]
    IN /\ first.file.exists
       /\ LinesOf(first.file) = LinesOf(before) \cup links
       /\ SortedNoDuplicates(first.file.lines)
       /\ first.new_links = links \ LinesOf(before)
       /\ Len(call.out) = 2 =>
            /\ call.out[2].new_links = {}
            /\ call.out[2].file = first.file

\* C26, amended: after a save the file holds exactly the union of the
\* links it held before (its lines without the white space around them,
\* blank lines left out) and the given links, sorted and without
\* duplicates; the save returns the given links that were not among the
\* links of the file before; a second save of the same links returns
\* nothing and leaves the file unchanged.
C26_SaveIsUnionOfLinks ==
  SaveDone =>
    LET before == call.arg.file
        links == Range(call.arg.vod_links)
        first == call.out[1]
    IN /\ first.file.exists
       /\ LinesOf(first.file) = LinksOf(before) \cup links
       /\ SortedNoDuplicates(first.file.lines)
       /\ first.new_links = links \ LinksOf(before)
       /\ Len(call.out) = 2 =>
            /\ call.out[2].new_links = {}
            /\ call.out[2].file = first.file

\* Two saves have run on a file that held a link between spaces and a link
\* that was not given again, and the first save found a new link.
C26_Witness ==
  /\ SaveDone
  /\ Len(call.out) = 2
  /\ LinesOf(call.arg.file) # LinksOf(call.arg.file)
  /\ LinksOf(call.arg.file) \ Range(call.arg.vod_links) # {}
  /\ call.out[1].new_links # {}
  /\ Len(call.out[1].file.lines) = 3

=============================================================================
